---- MODULE Spec2Model ----
(***************************************************************************)
(* The per-line syntax highlighter of the CodeSnippet component            *)
(* (src/framer-components/CodeSnippet.tsx, highlightLine).                 *)
(*                                                                         *)
(* Text is a TLA+ string; a character is a string of length one.  Every    *)
(* regular expression of the source is translated into an operator that    *)
(* finds its leftmost match from a position, with the greedy / lazy        *)
(* choices the JavaScript engine makes, and every String.replace(/../g)    *)
(* into the left-to-right replacement of the successive matches.           *)
(***************************************************************************)
EXTENDS Integers, Sequences, FiniteSets

VARIABLES raw, s, tags, pc, code, lines, rows

\* a call of highlightLine: its argument, its text, its mask table, its position
call == <<raw, s, tags, pc>>

\* a rendering of CodeSnippet: the code prop, its lines, the rows produced
snippet == <<code, lines, rows>>

\* FeaturesAccordion: its props, the parsed features, the set of open indices,
\* and whether it has been mounted
VARIABLES featuresText, allowMultiple, defaultOpenIndex, features, openIndices, mounted

accordion == <<featuresText, allowMultiple, defaultOpenIndex, features, openIndices, mounted>>

\* NavigationMenu: its links text, the parsed links, and whether it has been
\* rendered
VARIABLES linksText, links, rendered

navigation == <<linksText, links, rendered>>

\* MediaGallery: its mediaUrls prop, the activeIndex state, the items of the
\* latest render, what that render returned, and what React does next
VARIABLES mediaUrls, activeIndex, items, view, step

gallery == <<mediaUrls, activeIndex, items, view, step>>

\* EmailCapture: its accessKey prop, the committed email and status states,
\* the state updates queued by startTransition and not yet rendered, the
\* requests in flight, the responses that have arrived and that handleSubmit
\* has not resumed on yet, and the number of requests sent so far
VARIABLES accessKey, email, status, updates, flying, arrived, sent

capture == <<accessKey, email, status, updates, flying, arrived, sent>>

\* the copy button of CodeSnippet: the copied state, what the clipboard holds,
\* the clicks whose clipboard write has not settled yet, the reset timers
\* that are pending, oldest first, and the number of clicks so far
VARIABLES copied, clipboard, writing, timers, clicks

copying == <<copied, clipboard, writing, timers, clicks>>

\* everything but the highlighting and the rows of CodeSnippet
elsewhere == <<accordion, navigation, gallery, capture, copying>>

vars == <<call, snippet, elsewhere>>

\* no FeaturesAccordion is on the page
NoAccordion == /\ featuresText = ""
               /\ allowMultiple = FALSE
               /\ defaultOpenIndex = 0
               /\ features = <<>>
               /\ openIndices = {}
               /\ mounted = FALSE

\* no NavigationMenu is on the page
NoNavigation == /\ linksText = ""
                /\ links = <<>>
                /\ rendered = FALSE

\* no MediaGallery is on the page
NoGallery == /\ mediaUrls = ""
             /\ activeIndex = 0
             /\ items = <<>>
             /\ view = "none"
             /\ step = "none"

\* no EmailCapture is on the page
NoCapture == /\ accessKey = ""
             /\ email = ""
             /\ status = "none"
             /\ updates = <<>>
             /\ flying = {}
             /\ arrived = {}
             /\ sent = 0

\* the copy button has not been used
NoCopying == /\ copied = FALSE
             /\ clipboard = "none"
             /\ writing = {}
             /\ timers = <<>>
             /\ clicks = 0

NothingElse == NoAccordion /\ NoNavigation /\ NoGallery /\ NoCapture /\ NoCopying

(* Strings *)

Ch(t, i) == IF i >= 1 /\ i <= Len(t) THEN SubSeq(t, i, i) ELSE ""

From(t, i) == IF i > Len(t) THEN "" ELSE SubSeq(t, i, Len(t))

Mid(t, i, j) == IF i > j THEN "" ELSE SubSeq(t, i, j)

At(t, i, p) == /\ i >= 1
               /\ i + Len(p) - 1 <= Len(t)
               /\ SubSeq(t, i, i + Len(p) - 1) = p

AllPos(t, p) == {i \in 1..Len(t) : At(t, i, p)}

Contains(t, p) == \E i \in 1..Len(t) : At(t, i, p)

Min(S) == CHOOSE x \in S : \A y \in S : x <= y

Max(S) == CHOOSE x \in S : \A y \in S : x >= y

\* the least element of S that is >= from, 0 when there is none
NextIn(S, from) == LET T == {i \in S : i >= from}
                   IN  IF T = {} THEN 0 ELSE Min(T)

\* character classes of the regular expressions (no u flag: ASCII)
Digits == {"0", "1", "2", "3", "4", "5", "6", "7", "8", "9"}

Letters == {"a", "b", "c", "d", "e", "f", "g", "h", "i", "j", "k", "l", "m",
            "n", "o", "p", "q", "r", "s", "t", "u", "v", "w", "x", "y", "z",
            "A", "B", "C", "D", "E", "F", "G", "H", "I", "J", "K", "L", "M",
            "N", "O", "P", "Q", "R", "S", "T", "U", "V", "W", "X", "Y", "Z"}

\* \w
WordChars == Letters \cup Digits \cup {"_"}

\* [\w-]
NameChars == WordChars \cup {"-"}

\* \s
SpaceChars == {" ", "\t"}

\* the last index of the maximal run of characters of class C that starts at
\* i; i - 1 when the run is empty (a greedy C* or C+ at i)
RECURSIVE RunEnd(_, _, _)
RunEnd(t, i, C) == IF i <= Len(t) /\ Ch(t, i) \in C
                   THEN RunEnd(t, i + 1, C)
                   ELSE i - 1

\* the starts of the maximal runs of word characters
WordStarts(t) == {i \in 1..Len(t) : Ch(t, i) \in WordChars /\ Ch(t, i - 1) \notin WordChars}

\* t.replace(/p/g, r) for a literal p; P is AllPos(t, p)
RECURSIVE ReplaceFrom(_, _, _, _, _)
ReplaceFrom(t, P, n, r, from) ==
    LET i == NextIn(P, from)
    IN  IF i = 0 THEN From(t, from)
        ELSE Mid(t, from, i - 1) \o r \o ReplaceFrom(t, P, n, r, i + n)

ReplaceAll(t, p, r) == ReplaceFrom(t, AllPos(t, p), Len(p), r, 1)

(* The span markup the passes emit *)

SpanOpen(style) == "<span style=\"" \o style \o "\">"

SpanClose == "</span>"

Span(style, text) == SpanOpen(style) \o text \o SpanClose

(* 1. Escape HTML special characters first *)

\* the escape pass with its first replacement left out
EscapeWithoutAmp(t) == ReplaceAll(ReplaceAll(t, "<", "&lt;"), ">", "&gt;")

\* the escape pass with "&" replaced last instead of first
EscapeAmpLast(t) == ReplaceAll(ReplaceAll(ReplaceAll(t, "<", "&lt;"), ">", "&gt;"), "&", "&amp;")

Escape(t) == ReplaceAll(ReplaceAll(ReplaceAll(t, "&", "&amp;"), "<", "&lt;"), ">", "&gt;")

(* 2. Structural passes *)

Keywords == {"schema", "endschema", "section", "style", "javascript", "if",
             "for", "assign", "echo", "render", "include", "else", "elsif",
             "unless", "case", "when", "capture", "paginate", "form",
             "tablerow", "comment", "raw", "layout"}

\* t.replace(/\b(w1|w2|...)\b/g, <span style>$1</span>): both ends of a match
\* are word boundaries and the words are word characters only, so a match is
\* a maximal run of word characters that is one of the words
RECURSIVE WrapWordsFrom(_, _, _, _, _)
WrapWordsFrom(t, W, words, style, from) ==
    LET M == {i \in W : i >= from /\ Mid(t, i, RunEnd(t, i, WordChars)) \in words}
    IN  IF M = {} THEN From(t, from)
        ELSE LET i == Min(M)
                 e == RunEnd(t, i, WordChars)
             IN  Mid(t, from, i - 1) \o Span(style, Mid(t, i, e))
                     \o WrapWordsFrom(t, W, words, style, e + 1)

WrapWords(t, words, style) == WrapWordsFrom(t, WordStarts(t), words, style, 1)

\* the first closing delimiter of a lazy (.*?)(-?c) from p: C is AllPos(t, c);
\* the closer starts at the first c at or after p, or one earlier when a "-"
\* at or after p precedes it.  0 when there is none
CloserAt(t, C, p) ==
    LET k == NextIn(C, p)
    IN  IF k = 0 THEN 0
        ELSE IF k - 1 >= p /\ Ch(t, k - 1) = "-" THEN k - 1 ELSE k

\* Liquid tags: s.replace(/(\{%-?)(.*?)(-?%\})/g, ...)
RECURSIVE LiquidTagsFrom(_, _, _, _)
LiquidTagsFrom(t, O, C, from) ==
    LET i == NextIn(O, from)
        p == IF Ch(t, i + 2) = "-" THEN i + 3 ELSE i + 2
        j == CloserAt(t, C, p)
        e == IF Ch(t, j) = "-" THEN j + 2 ELSE j + 1
        kw == WrapWords(Mid(t, p, j - 1), Keywords, "color:#cf222e;font-weight:600")
    IN  IF i = 0 \/ j = 0 THEN From(t, from)
        ELSE Mid(t, from, i - 1)
                 \o Span("color:#1a7f37;font-weight:600", Mid(t, i, p - 1))
                 \o kw
                 \o Span("color:#1a7f37;font-weight:600", Mid(t, j, e))
                 \o LiquidTagsFrom(t, O, C, e + 1)

\* the Liquid tag pass with the delimiters left uncoloured
LiquidTagsPlainDelimiters(t) == WrapWords(t, Keywords, "color:#cf222e;font-weight:600")

\* the Liquid tag pass with the end of the line taken as a closer: the first
\* opening delimiter that has no closer after it is coloured all the same
LiquidTagsOpenEnded(t) ==
    LET O == AllPos(t, "{%")
        C == AllPos(t, "%}")
        U == {i \in O : NextIn(C, i + 1) = 0}
    IN  IF U = {} THEN LiquidTagsFrom(t, O, C, 1)
        ELSE LET u == Min(U)
                 h == Mid(t, 1, u - 1)
             IN  LiquidTagsFrom(h, AllPos(h, "{%"), AllPos(h, "%}"), 1)
                     \o Span("color:#1a7f37;font-weight:600", "{%")
                     \o From(t, u + 2)

LiquidTags(t) == LiquidTagsFrom(t, AllPos(t, "{%"), AllPos(t, "%}"), 1)

\* inner.replace(/\|\s*(\w+)/g, '| <span style="color:#953800;font-weight:500">$1</span>')
RECURSIVE FiltersFrom(_, _, _)
FiltersFrom(t, B, from) ==
    LET M == {i \in B : /\ i >= from
                        /\ Ch(t, RunEnd(t, i + 1, SpaceChars) + 1) \in WordChars}
    IN  IF M = {} THEN From(t, from)
        ELSE LET i == Min(M)
                 q == RunEnd(t, i + 1, SpaceChars) + 1
                 e == RunEnd(t, q, WordChars)
             IN  Mid(t, from, i - 1) \o "| "
                     \o Span("color:#953800;font-weight:500", Mid(t, q, e))
                     \o FiltersFrom(t, B, e + 1)

Filters(t) == FiltersFrom(t, AllPos(t, "|"), 1)

\* Liquid output: s.replace(/(\{\{-?)(.*?)(-?\}\})/g, ...)
RECURSIVE LiquidOutputFrom(_, _, _, _)
LiquidOutputFrom(t, O, C, from) ==
    LET i == NextIn(O, from)
        p == IF Ch(t, i + 2) = "-" THEN i + 3 ELSE i + 2
        j == CloserAt(t, C, p)
        e == IF Ch(t, j) = "-" THEN j + 2 ELSE j + 1
    IN  IF i = 0 \/ j = 0 THEN From(t, from)
        ELSE Mid(t, from, i - 1)
                 \o Span("color:#1a7f37;font-weight:600", Mid(t, i, p - 1))
                 \o Span("color:#0550ae", Filters(Mid(t, p, j - 1)))
                 \o Span("color:#1a7f37;font-weight:600", Mid(t, j, e))
                 \o LiquidOutputFrom(t, O, C, e + 1)

LiquidOutput(t) == LiquidOutputFrom(t, AllPos(t, "{{"), AllPos(t, "}}"), 1)

\* the start of the run of characters of class C that ends at i, not before lo
RECURSIVE RunStart(_, _, _, _)
RunStart(t, i, C, lo) == IF i >= lo /\ Ch(t, i) \in C
                         THEN RunStart(t, i - 1, C, lo)
                         ELSE i + 1

\* (&quot;|") at i: the length of the quote matched, 0 when there is none
QuoteLen(t, i) == IF At(t, i, "&quot;") THEN 6 ELSE IF Ch(t, i) = "\"" THEN 1 ELSE 0

\* attrs.replace(/([\w-]+)(=)(&quot;|")(.*?)(&quot;|")/g,
\*   '<span style="color:#116329">$1</span>$2<span style="color:#0a3069">$3$4$5</span>')
\* E: the positions of "=", Q: the positions of a quote
RECURSIVE AttrsFrom(_, _, _, _)
AttrsFrom(t, E, Q, from) ==
    LET M == {q \in E : /\ q - 1 >= from
                        /\ Ch(t, q - 1) \in NameChars
                        /\ QuoteLen(t, q + 1) > 0
                        /\ NextIn(Q, q + 1 + QuoteLen(t, q + 1)) # 0}
    IN  IF M = {} THEN From(t, from)
        ELSE LET q == Min(M)
                 n == RunStart(t, q - 1, NameChars, from)
                 c == NextIn(Q, q + 1 + QuoteLen(t, q + 1))
                 e == c + QuoteLen(t, c) - 1
             IN  Mid(t, from, n - 1)
                     \o Span("color:#116329", Mid(t, n, q - 1))
                     \o "="
                     \o Span("color:#0a3069", Mid(t, q + 1, e))
                     \o AttrsFrom(t, E, Q, e + 1)

Attrs(t) == AttrsFrom(t, AllPos(t, "="), AllPos(t, "\"") \cup AllPos(t, "&quot;"), 1)

\* HTML tags: s.replace(/(&lt;\/?)([\w-]+)(.*?)(&gt;)/g, ...)
RECURSIVE HtmlTagsFrom(_, _, _, _)
HtmlTagsFrom(t, L, G, from) ==
    LET NameAt(i) == IF Ch(t, i + 4) = "/" THEN i + 5 ELSE i + 4
        M == {i \in L : /\ i >= from
                        /\ Ch(t, NameAt(i)) \in NameChars
                        /\ NextIn(G, RunEnd(t, NameAt(i), NameChars) + 1) # 0}
    IN  IF M = {} THEN From(t, from)
        ELSE LET i == Min(M)
                 n == NameAt(i)
                 ne == RunEnd(t, n, NameChars)
                 j == NextIn(G, ne + 1)
             IN  Mid(t, from, i - 1)
                     \o Span("color:#6e7781", Mid(t, i, n - 1))
                     \o Span("color:#0550ae", Mid(t, n, ne))
                     \o Attrs(Mid(t, ne + 1, j - 1))
                     \o Span("color:#6e7781", Mid(t, j, j + 3))
                     \o HtmlTagsFrom(t, L, G, j + 4)

HtmlTags(t) == HtmlTagsFrom(t, AllPos(t, "&lt;"), AllPos(t, "&gt;"), 1)

\* HTML comments: s.replace(/(&lt;!--)(.*?)(--&gt;)/g,
\*   '<span style="color:#6e7781;font-style:italic">$1$2$3</span>')
RECURSIVE HtmlCommentsFrom(_, _, _, _)
HtmlCommentsFrom(t, O, C, from) ==
    LET i == NextIn(O, from)
        j == NextIn(C, i + 7)
    IN  IF i = 0 \/ j = 0 THEN From(t, from)
        ELSE Mid(t, from, i - 1)
                 \o Span("color:#6e7781;font-style:italic", Mid(t, i, j + 5))
                 \o HtmlCommentsFrom(t, O, C, j + 6)

HtmlComments(t) == HtmlCommentsFrom(t, AllPos(t, "&lt;!--"), AllPos(t, "--&gt;"), 1)

(* 3. Mask all HTML tags *)

\* `${n}`: the decimal digits of n
RECURSIVE Decimal(_)
Decimal(n) == IF n < 10 THEN Ch("0123456789", n + 1)
               ELSE Decimal(n \div 10) \o Ch("0123456789", (n % 10) + 1)

Placeholder(n) == "__HL_TAG_" \o Decimal(n) \o "__"

\* s.replace(/<[^>]*>/g, (match) => { tags.push(match); return `__HL_TAG_${tags.length - 1}__` })
\* tg is the table so far; the result is the masked text and the table
RECURSIVE MaskFrom(_, _, _, _, _)
MaskFrom(t, L, G, from, tg) ==
    LET i == NextIn(L, from)
        j == NextIn(G, i + 1)
    IN  IF i = 0 \/ j = 0 THEN [s |-> From(t, from), tags |-> tg]
        ELSE LET r == MaskFrom(t, L, G, j + 1, Append(tg, Mid(t, i, j)))
             IN  [s |-> Mid(t, from, i - 1) \o Placeholder(Len(tg)) \o r.s,
                  tags |-> r.tags]

\* the masking step without the g flag: only the first span is masked
MaskFirstOnly(t) ==
    LET i == NextIn(AllPos(t, "<"), 1)
        j == NextIn(AllPos(t, ">"), i + 1)
    IN  IF i = 0 \/ j = 0 THEN [s |-> t, tags |-> <<>>]
        ELSE [s |-> Mid(t, 1, i - 1) \o Placeholder(0) \o From(t, j + 1),
              tags |-> <<Mid(t, i, j)>>]

Mask(t) == MaskFrom(t, AllPos(t, "<"), AllPos(t, ">"), 1, <<>>)

(* 4. Content passes *)

\* JSON keys: s.replace(/"([\w_-]+?)"\s*:/g, '<span style="color:#953800">"$1"</span>:')
RECURSIVE JsonKeysFrom(_, _, _)
JsonKeysFrom(t, Q, from) ==
    LET NameEnd(i) == RunEnd(t, i + 1, NameChars)
        Colon(i) == RunEnd(t, NameEnd(i) + 2, SpaceChars) + 1
        M == {i \in Q : /\ i >= from
                        /\ NameEnd(i) >= i + 1
                        /\ Ch(t, NameEnd(i) + 1) = "\""
                        /\ Ch(t, Colon(i)) = ":"}
    IN  IF M = {} THEN From(t, from)
        ELSE LET i == Min(M)
             IN  Mid(t, from, i - 1)
                     \o Span("color:#953800", Mid(t, i, NameEnd(i) + 1))
                     \o ":"
                     \o JsonKeysFrom(t, Q, Colon(i) + 1)

JsonKeys(t) == JsonKeysFrom(t, AllPos(t, "\""), 1)

\* Strings: s.replace(/"([^"]*)"/g, '<span style="color:#0a3069">"$1"</span>')
RECURSIVE StringsFrom(_, _, _)
StringsFrom(t, Q, from) ==
    LET i == NextIn(Q, from)
        j == NextIn(Q, i + 1)
    IN  IF i = 0 \/ j = 0 THEN From(t, from)
        ELSE Mid(t, from, i - 1)
                 \o Span("color:#0a3069", Mid(t, i, j))
                 \o StringsFrom(t, Q, j + 1)

Strings(t) == StringsFrom(t, AllPos(t, "\""), 1)

\* /\b(\d+\.?\d*)\b/ at a digit i that follows a word boundary: the last index
\* of the match, 0 when there is none.  \d+ takes the whole run of digits; a
\* "." is taken when digits and a boundary follow, or when a word character
\* follows it; otherwise the match ends with the digits before it
NumberEnd(t, i) ==
    LET e1 == RunEnd(t, i, Digits)
        e2 == RunEnd(t, e1 + 2, Digits)
    IN  IF Ch(t, e1 + 1) = "."
        THEN IF e2 >= e1 + 2 /\ Ch(t, e2 + 1) \notin WordChars THEN e2
             ELSE IF Ch(t, e1 + 2) \in WordChars THEN e1 + 1
             ELSE e1
        ELSE IF Ch(t, e1 + 1) \notin WordChars THEN e1 ELSE 0

\* Numbers: s.replace(/\b(\d+\.?\d*)\b/g, '<span style="color:#0550ae">$1</span>')
RECURSIVE NumbersFrom(_, _, _)
NumbersFrom(t, D, from) ==
    LET M == {i \in D : i >= from /\ NumberEnd(t, i) # 0}
    IN  IF M = {} THEN From(t, from)
        ELSE LET i == Min(M)
                 e == NumberEnd(t, i)
             IN  Mid(t, from, i - 1)
                     \o Span("color:#0550ae", Mid(t, i, e))
                     \o NumbersFrom(t, D, e + 1)

Numbers(t) ==
    NumbersFrom(t, {i \in 1..Len(t) : Ch(t, i) \in Digits /\ Ch(t, i - 1) \notin WordChars}, 1)

\* Booleans: s.replace(/\b(true|false|nil|null)\b/g, ...)
Booleans(t) == WrapWords(t, {"true", "false", "nil", "null"}, "color:#cf222e;font-weight:500")

(* 5. Unmask HTML tags *)

\* parseInt(index) for a string of decimal digits
RECURSIVE ParseInt(_)
ParseInt(d) == IF Len(d) = 0 THEN 0
               ELSE 10 * ParseInt(Mid(d, 1, Len(d) - 1))
                      + (CHOOSE v \in 0..9 : Ch("0123456789", v + 1) = Ch(d, Len(d)))

\* tags[n] of a JavaScript array, as the replacement string: a missing entry
\* is undefined, which replace() inserts as the text "undefined"
TagAt(tg, n) == IF n + 1 <= Len(tg) THEN tg[n + 1] ELSE "undefined"

\* /__HL_TAG_(\d+)__/ at i: the last digit of the index, and whether it matches
IndexEnd(t, i) == RunEnd(t, i + 9, Digits)

IsPlaceholder(t, i) == /\ At(t, i, "__HL_TAG_")
                       /\ IndexEnd(t, i) >= i + 9
                       /\ At(t, IndexEnd(t, i) + 1, "__")

\* s.replace(/__HL_TAG_(\d+)__/g, (_, index) => tags[parseInt(index)])
\* P: the positions where the regular expression matches
RECURSIVE UnmaskFrom(_, _, _, _)
UnmaskFrom(t, P, tg, from) ==
    LET i == NextIn(P, from)
    IN  IF i = 0 THEN From(t, from)
        ELSE Mid(t, from, i - 1)
                 \o TagAt(tg, ParseInt(Mid(t, i + 9, IndexEnd(t, i))))
                 \o UnmaskFrom(t, P, tg, IndexEnd(t, i) + 3)

Unmask(t, tg) == UnmaskFrom(t, {i \in AllPos(t, "__HL_TAG_") : IsPlaceholder(t, i)}, tg, 1)

highlightLine(line) ==
    LET m == Mask(HtmlComments(HtmlTags(LiquidOutput(LiquidTags(Escape(line))))))
    IN  Unmask(Booleans(Numbers(Strings(JsonKeys(m.s)))), m.tags)

(* The lines highlightLine is called with *)

MaxLen == 3

\* the pieces a line is made of: an HTML tag with an attribute, a number, Liquid
\* output with and without a filter, a quoted name, Liquid tag delimiters and a
\* keyword, an escaped entity, text of the placeholder shape, a boolean, and
\* HTML comment delimiters
Fragments == {"<a w=\"", "\">", "12", "{{x}}", "{{x|f}}", "\"k\"", ":", "{%", "if", "%}",
              "&amp;", "__HL_TAG_0__", "true", "<!--", "-->"}

\* the concatenations of at most n fragments
RECURSIVE LinesOf(_)
LinesOf(n) == IF n = 0 THEN {""}
              ELSE LET P == LinesOf(n - 1)
                   IN  P \cup {l \o f : l \in P, f \in Fragments}

Lines == LinesOf(MaxLen)

(* highlightLine, one action per statement *)

\* the concatenations of at most n fragments of F
RECURSIVE Concat(_, _)
Concat(F, n) == IF n = 0 THEN {""}
                ELSE LET P == Concat(F, n - 1)
                     IN  P \cup {l \o f : l \in P, f \in F}

\* the entry of highlightLine, called with a line of L outside any rendering
Entry(L) == /\ raw \in L
            /\ s = ""
            /\ tags = <<>>
            /\ pc = "escape"
            /\ code = ""
            /\ lines = <<>>
            /\ rows = <<>>
            /\ NothingElse

Init == Entry(Lines)

EscapeStep == /\ pc = "escape"
              /\ s' = Escape(raw)
              /\ pc' = "liquidTags"
              /\ UNCHANGED <<raw, tags, snippet, elsewhere>>

LiquidTagsStep == /\ pc = "liquidTags"
                  /\ s' = LiquidTags(s)
                  /\ pc' = "liquidOutput"
                  /\ UNCHANGED <<raw, tags, snippet, elsewhere>>

LiquidOutputStep == /\ pc = "liquidOutput"
                    /\ s' = LiquidOutput(s)
                    /\ pc' = "htmlTags"
                    /\ UNCHANGED <<raw, tags, snippet, elsewhere>>

HtmlTagsStep == /\ pc = "htmlTags"
                /\ s' = HtmlTags(s)
                /\ pc' = "htmlComments"
                /\ UNCHANGED <<raw, tags, snippet, elsewhere>>

HtmlCommentsStep == /\ pc = "htmlComments"
                    /\ s' = HtmlComments(s)
                    /\ pc' = "mask"
                    /\ UNCHANGED <<raw, tags, snippet, elsewhere>>

\* the masking step with a table that outlives the call: the spans of this
\* line are pushed after those of the lines before it
MaskStepSharedTable ==
    /\ pc = "mask"
    /\ LET m == MaskFrom(s, AllPos(s, "<"), AllPos(s, ">"), 1, tags)
       IN  s' = m.s /\ tags' = m.tags
    /\ pc' = "jsonKeys"
    /\ UNCHANGED <<raw, snippet, elsewhere>>

MaskStep == /\ pc = "mask"
            /\ LET m == Mask(s)
               IN  s' = m.s /\ tags' = m.tags
            /\ pc' = "jsonKeys"
            /\ UNCHANGED <<raw, snippet, elsewhere>>

JsonKeysStep == /\ pc = "jsonKeys"
                /\ s' = JsonKeys(s)
                /\ pc' = "strings"
                /\ UNCHANGED <<raw, tags, snippet, elsewhere>>

StringsStep == /\ pc = "strings"
               /\ s' = Strings(s)
               /\ pc' = "numbers"
               /\ UNCHANGED <<raw, tags, snippet, elsewhere>>

NumbersStep == /\ pc = "numbers"
               /\ s' = Numbers(s)
               /\ pc' = "booleans"
               /\ UNCHANGED <<raw, tags, snippet, elsewhere>>

BooleansStep == /\ pc = "booleans"
                /\ s' = Booleans(s)
                /\ pc' = "unmask"
                /\ UNCHANGED <<raw, tags, snippet, elsewhere>>

UnmaskStep == /\ pc = "unmask"
              /\ s' = Unmask(s, tags)
              /\ pc' = "done"
              /\ UNCHANGED <<raw, tags, snippet, elsewhere>>

Next == \/ EscapeStep
        \/ LiquidTagsStep
        \/ LiquidOutputStep
        \/ HtmlTagsStep
        \/ HtmlCommentsStep
        \/ MaskStep
        \/ JsonKeysStep
        \/ StringsStep
        \/ NumbersStep
        \/ BooleansStep
        \/ UnmaskStep

Spec == Init /\ [][Next]_vars

(* Measures the properties are stated with *)

\* the number of occurrences of p in t
Count(t, p) == Cardinality(AllPos(t, p))

\* the text that enters the masking step for a line
Structural(line) == HtmlComments(HtmlTags(LiquidOutput(LiquidTags(Escape(line)))))

\* the deepest nesting of spans in t: the spans open after an opening tag are
\* the opening tags up to it less the closing tags before it
MaxDepth(t) ==
    LET O == AllPos(t, "<span")
        C == AllPos(t, "</span>")
    IN  IF O = {} THEN 0
        ELSE Max({Cardinality({x \in O : x <= o}) - Cardinality({c \in C : c < o}) : o \in O})

ContentPasses == {"jsonKeys", "strings", "numbers", "booleans"}

(* C1: at the moment each content pass (quoted key, quoted string, number,    *)
(* boolean) runs, the text it scans contains no annotation markup emitted     *)
(* earlier, by a structural pass or by an earlier content pass.  Every "<"    *)
(* and ">" of the line was escaped, so one in the text is emitted markup.     *)
C1_ContentSeesNoMarkup ==
    (pc \in ContentPasses) => (~Contains(s, "<") /\ ~Contains(s, ">"))

(* C2: each character is wrapped in a colour span by at most one pass: a      *)
(* content pass never wraps text that is already inside a span, so the        *)
(* returned text nests spans no deeper than the structural passes left them,  *)
(* and no deeper than one span where they left none nested.                   *)
C2_WrappedByOnePass ==
    (pc = "done") =>
        LET d == MaxDepth(Structural(raw))
        IN  MaxDepth(s) <= (IF d > 1 THEN d ELSE 1)

\* an HTML tag whose one attribute has a numeric literal as its value, and no
\* digit anywhere else: <name attr="digits">
NumericAttrLine(line) ==
    LET Q == AllPos(line, "\"")
        q1 == Min(Q)
        q2 == Max(Q)
    IN  /\ Cardinality(Q) = 2
        /\ Ch(line, 1) = "<"
        /\ Ch(line, 2) \in Letters
        /\ \A i \in 2..(q1 - 2) : Ch(line, i) \in Letters \cup {"-", " "}
        /\ Ch(line, q1 - 2) \in Letters
        /\ Ch(line, q1 - 1) = "="
        /\ q2 > q1 + 1
        /\ \A i \in (q1 + 1)..(q2 - 1) : Ch(line, i) \in Digits
        /\ From(line, q2 + 1) = ">"

RECURSIVE PlaceholdersFrom(_, _, _)
PlaceholdersFrom(t, P, from) ==
    LET i == NextIn(P, from)
    IN  IF i = 0 THEN <<>>
        ELSE <<i>> \o PlaceholdersFrom(t, P, IndexEnd(t, i) + 3)

Placeholders(t) == PlaceholdersFrom(t, {i \in AllPos(t, "__HL_TAG_") : IsPlaceholder(t, i)}, 1)

\* the index embedded in the placeholder token that starts at i
PlaceholderIndex(t, i) == ParseInt(Mid(t, i + 9, IndexEnd(t, i)))

\* the indices of the placeholder tokens of t, in the order of the text
PlaceholderIndices(t) ==
    LET P == Placeholders(t)
    IN  [k \in 1..Len(P) |-> PlaceholderIndex(t, P[k])]

\* a span of markup as the masking step takes it: "<", no ">", then ">"
IsMarkupSpan(x) == /\ Len(x) >= 2
                   /\ Ch(x, 1) = "<"
                   /\ AllPos(x, ">") = {Len(x)}

(* C4: the masking step inserts exactly one placeholder per masked markup     *)
(* span: for the text s that enters it, the table has one entry per           *)
(* placeholder inserted and one per markup span of s (a span ends at the      *)
(* first ">" after a "<"), each entry is a markup span, the placeholder of    *)
(* each entry was inserted once (none masked twice) and no markup span is     *)
(* left in the masked text (none skipped); and the returned text contains no  *)
(* placeholder token.                                                         *)
C4_OnePlaceholderPerSpan ==
    /\ (pc = "mask") =>
           LET m == Mask(s)
               G == AllPos(s, ">")
               Before == PlaceholderIndices(s)
               After == PlaceholderIndices(m.s)
               Times(I, n) == Cardinality({k \in 1..Len(I) : I[k] = n})
           IN  /\ Len(After) = Len(Before) + Len(m.tags)
               /\ \A n \in 0..(Len(m.tags) - 1) :
                      /\ Times(After, n) = Times(Before, n) + 1
                      /\ IsMarkupSpan(m.tags[n + 1])
               /\ Len(m.tags) = Cardinality({NextIn(G, i) : i \in AllPos(s, "<")} \ {0})
               /\ Mask(m.s).tags = <<>>
    /\ (pc = "done") => (Placeholders(s) = <<>>)

C4_Witness == pc = "done" /\ Len(tags) >= 10 /\ Placeholders(s) = <<>>

(* C5: masking followed by unmasking, with the content passes matching        *)
(* nothing, returns exactly the text that entered the masking step.           *)
C5_MaskUnmaskRoundTrip ==
    (pc = "mask") => (Unmask(Mask(s).s, Mask(s).tags) = s)

(* C6: every placeholder token the restoration pass encounters has a numbered *)
(* entry in the mask table.                                                   *)
C6_EveryTokenHasEntry ==
    (pc = "unmask") =>
        LET P == Placeholders(s)
        IN  \A k \in 1..Len(P) : PlaceholderIndex(s, P[k]) < Len(tags)

(* C7: each placeholder token denotes exactly one masked span and only the    *)
(* generated tokens are treated as placeholders: restoration finds as many    *)
(* tokens as the table has entries, and text of the line that has the         *)
(* placeholder shape is returned unchanged.                                   *)
C7_OnlyGeneratedTokens ==
    /\ (pc = "unmask") => (Len(Placeholders(s)) = Len(tags))
    /\ (pc = "done") => (Len(Placeholders(s)) = Len(Placeholders(raw)))

\* the styles of the spans the highlighter generates
Styles == {"color:#cf222e;font-weight:600", "color:#1a7f37;font-weight:600",
           "color:#953800;font-weight:500", "color:#0550ae", "color:#6e7781",
           "color:#116329", "color:#0a3069", "color:#6e7781;font-style:italic",
           "color:#953800", "color:#cf222e;font-weight:500"}

GeneratedTags == {SpanOpen(style) : style \in Styles} \cup {SpanClose}

\* a sequence of tags in which every closing tag closes an open span and no
\* span is left open
Balanced(tg) ==
    LET Opens(k) == Cardinality({i \in 1..k : tg[i] # SpanClose})
        Closes(k) == Cardinality({i \in 1..k : tg[i] = SpanClose})
    IN  /\ \A k \in 1..Len(tg) : Closes(k) <= Opens(k)
        /\ Closes(Len(tg)) = Opens(Len(tg))

\* t holds, as markup, only generated span tags, properly balanced
WellFormed(t) ==
    LET m == Mask(t)
    IN  /\ \A i \in 1..Len(m.tags) : m.tags[i] \in GeneratedTags
        /\ ~Contains(m.s, "<")
        /\ ~Contains(m.s, ">")
        /\ Balanced(m.tags)

(* C8: the returned text contains, as markup, only span open and close tags   *)
(* generated by the highlighter, well formed and properly balanced.           *)
C8_OutputWellFormed == (pc = "done") => WellFormed(s)

(* C9 as stated: an input line containing &amp; yields output containing      *)
(* &amp; and not &amp;amp;.                                                   *)
C9_NoDoubleEscape ==
    (pc = "done" /\ Contains(raw, "&amp;")) =>
        (Contains(s, "&amp;") /\ ~Contains(s, "&amp;amp;"))

(* C9, amended: the "&" of an entity in the input is escaped like any other,  *)
(* once: an input line containing &amp; yields, from the escape pass on,      *)
(* text containing &amp;amp;, with one "&" per "&" of the line.               *)
C9_EntityEscapedOnce ==
    (pc # "escape" /\ Contains(raw, "&amp;")) =>
        (Contains(s, "&amp;amp;") /\ Count(s, "&amp;") = Count(raw, "&"))

C9_Witness == pc = "done" /\ Contains(raw, "&amp;") /\ Contains(s, "&amp;amp;")

\* each character escaped by itself
EscapeChar(c) == IF c = "&" THEN "&amp;"
                 ELSE IF c = "<" THEN "&lt;"
                 ELSE IF c = ">" THEN "&gt;"
                 ELSE c

RECURSIVE EscapeEach(_)
EscapeEach(t) == IF Len(t) = 0 THEN "" ELSE EscapeChar(Ch(t, 1)) \o EscapeEach(From(t, 2))

(* C10: escaping runs first and once per character: the text the first pass   *)
(* leaves is the line with each "&", "<" and ">" replaced by its entity; the  *)
(* returned text has one &amp; per "&", one &lt; per "<" and one &gt; per ">" *)
(* of the line and no other "&"; and no "<" or ">" of the line reaches it     *)
(* unescaped: every "<" opens a generated tag and every ">" closes one.       *)
C10_EscapedExactlyOnce ==
    /\ (pc = "liquidTags") => (s = EscapeEach(raw))
    /\ (pc = "done") =>
           /\ Count(s, "&amp;") = Count(raw, "&")
           /\ Count(s, "&lt;") = Count(raw, "<")
           /\ Count(s, "&gt;") = Count(raw, ">")
           /\ Count(s, "&") = Count(raw, "&") + Count(raw, "<") + Count(raw, ">")
           /\ \A i \in AllPos(s, "<") : At(s, i, "<span ") \/ At(s, i, "</span>")
           /\ Count(s, ">") = Count(s, "<")

C10_Witness == /\ pc = "done"
               /\ Contains(raw, "&")
               /\ Contains(raw, "<")
               /\ Contains(raw, ">")
               /\ Contains(s, "&lt;")

(* Lines of opening and closing delimiters *)

\* the delimiters of the four structural constructs, an attribute and text
DelimiterFragments == {"{%", "%}", "{{", "}}", "<b", ">", "<!--", "-->", "x", " w=\"1\""}

DelimiterLines == Concat(DelimiterFragments, MaxLen)

InitDelimiters == Entry(DelimiterLines)

SpecDelimiters == InitDelimiters /\ [][Next]_vars

\* whether position i of t lies inside a span: more spans are opened than
\* closed before it
Enclosed(t, i) == Cardinality({o \in AllPos(t, "<span") : o < i})
                      > Cardinality({c \in AllPos(t, "</span>") : c < i})

\* the first of the opening delimiters O that has none of the closing
\* delimiters C after it, 0 when every one has
FirstUnclosed(O, C) == LET U == {i \in O : NextIn(C, i + 1) = 0}
                       IN  IF U = {} THEN 0 ELSE Min(U)

\* the opening delimiters of HTML tags in escaped text: &lt; or &lt;/ and a name
TagOpeners(t) ==
    {i \in AllPos(t, "&lt;") :
        Ch(t, IF Ch(t, i + 4) = "/" THEN i + 5 ELSE i + 4) \in NameChars}

\* out is t with nothing changed from position u on and no span added around
\* that text: the spans open at it are those that were open in t
LeftFrom(t, u, out) ==
    LET k == Len(t) - u + 1
        h == Mid(out, 1, Len(out) - k)
    IN  /\ Len(out) >= k
        /\ From(out, Len(out) - k + 1) = From(t, u)
        /\ Count(h, "<span") + Count(Mid(t, 1, u - 1), "</span>")
               = Count(h, "</span>") + Count(Mid(t, 1, u - 1), "<span")

(* C11 as stated: highlightLine is total, and an opening Liquid or tag        *)
(* delimiter with no closer after it on the line comes out of the structural  *)
(* passes as plain escaped text with no structural span around it.            *)
C11_UnclosedIsPlain ==
    (pc = "mask") =>
        /\ FirstUnclosed(AllPos(raw, "{%"), AllPos(raw, "%}")) # 0
               => ~Enclosed(s, Max(AllPos(s, "{%")))
        /\ FirstUnclosed(AllPos(raw, "{{"), AllPos(raw, "}}")) # 0
               => ~Enclosed(s, Max(AllPos(s, "{{")))
        /\ FirstUnclosed(AllPos(raw, "<"), AllPos(raw, ">")) # 0
               => ~Enclosed(s, Max(AllPos(s, "&lt;")))

(* C11, amended: highlightLine is total (no statement of it can fail, and   *)
(* what it returns is a string), and an opening delimiter with no closer after it on the line is   *)
(* left alone by the pass of its own construct: that pass changes nothing     *)
(* from the delimiter on and adds no span around it.  (A well-formed          *)
(* construct that encloses it is still coloured, the delimiter included.)     *)
C11_UnclosedLeftByItsPass ==
    /\ (pc = "done") => (s \in STRING)
    /\ (pc = "liquidTags") =>
           LET u == FirstUnclosed(AllPos(s, "{%"), AllPos(s, "%}"))
           IN  u # 0 => LeftFrom(s, u, LiquidTags(s))
    /\ (pc = "liquidOutput") =>
           LET u == FirstUnclosed(AllPos(s, "{{"), AllPos(s, "}}"))
           IN  u # 0 => LeftFrom(s, u, LiquidOutput(s))
    /\ (pc = "htmlTags") =>
           LET u == FirstUnclosed(TagOpeners(s), AllPos(s, "&gt;"))
           IN  u # 0 => LeftFrom(s, u, HtmlTags(s))
    /\ (pc = "htmlComments") =>
           LET u == FirstUnclosed(AllPos(s, "&lt;!--"), AllPos(s, "--&gt;"))
           IN  u # 0 => LeftFrom(s, u, HtmlComments(s))

\* a Liquid tag was coloured and an opening delimiter after it, which has no
\* closer, was not
C11_Witness ==
    /\ pc = "liquidOutput"
    /\ FirstUnclosed(AllPos(raw, "{%"), AllPos(raw, "%}")) > 1
    /\ Contains(s, Span("color:#1a7f37;font-weight:600", "%}") \o "{%")

(* The lines of the worked examples *)

MaxTokens == 4

\* the pieces of the examples "count": 5, {% if x %}, item123 and 123
ExampleFragments == {"\"count\"", ": ", "5", "{% ", "if ", "x ", "%}", "item", "123"}

ExampleLines == Concat(ExampleFragments, MaxTokens)

InitExamples == Entry(ExampleLines)

SpecExamples == InitExamples /\ [][Next]_vars

(* C12: for the input line "count": 5 the returned text wraps "count" in      *)
(* exactly one span of the key colour, wraps 5 in exactly one span of the     *)
(* number colour, leaves the colon unstyled and contains no other span.       *)
C12_KeyAndNumber ==
    (pc = "done" /\ raw = "\"count\": 5") =>
        (s = Span("color:#953800", "\"count\"") \o ": " \o Span("color:#0550ae", "5"))

\* the words of a Liquid tag with the text each is returned as: a keyword of
\* the vocabulary in the keyword colour, any other word as it is
TagWords == {[in |-> "if ", out |-> Span("color:#cf222e;font-weight:600", "if") \o " "],
             [in |-> "x ", out |-> "x "]}

\* the texts of at most n words, each with the text it is returned as
RECURSIVE TagInner(_)
TagInner(n) == IF n = 0 THEN {[in |-> "", out |-> ""]}
               ELSE LET P == TagInner(n - 1)
                    IN  P \cup {[in |-> p.in \o w.in, out |-> p.out \o w.out] :
                                    p \in P, w \in TagWords}

(* C13: for a Liquid tag construct such as {% if x %}, the opening and the    *)
(* closing delimiter are each wrapped in the delimiter colour, a keyword of   *)
(* the vocabulary inside it (if) is wrapped in the keyword colour, which is   *)
(* not the delimiter colour, and a word that is no keyword (x) is left        *)
(* unstyled: the returned text is exactly those spans around the tag's text.  *)
C13_LiquidTagColours ==
    /\ "color:#cf222e;font-weight:600" # "color:#1a7f37;font-weight:600"
    /\ (pc = "done") =>
           \A p \in TagInner(MaxTokens - 2) :
               (raw = "{% " \o p.in \o "%}") =>
                   (s = Span("color:#1a7f37;font-weight:600", "{%") \o " " \o p.out
                            \o Span("color:#1a7f37;font-weight:600", "%}"))

C13_Witness ==
    /\ pc = "done"
    /\ raw = "{% if x %}"
    /\ s = Span("color:#1a7f37;font-weight:600", "{%") \o " "
               \o Span("color:#cf222e;font-weight:600", "if") \o " x "
               \o Span("color:#1a7f37;font-weight:600", "%}")

\* the places where the digits d stand alone in t: no word character before
\* them and none after them
Standalone(t, d) ==
    {i \in AllPos(t, d) : Ch(t, i - 1) \notin WordChars /\ Ch(t, i + Len(d)) \notin WordChars}

(* C14: the number pass binds at word boundaries: digits that are part of a   *)
(* longer word such as item123 are never wrapped in the number colour, while  *)
(* a standalone 123 always is: the returned text has one number-colour span   *)
(* around 123 for each 123 of the line that stands alone, and no other.       *)
C14_NumbersAtWordBoundaries ==
    (pc = "done") =>
        (Count(s, Span("color:#0550ae", "123")) = Cardinality(Standalone(raw, "123")))

(* CodeSnippet: the lines of the code are rendered one row each *)

MaxCode == 4

\* (code || "").split("\n")
RECURSIVE SplitFrom(_, _, _)
SplitFrom(t, N, from) ==
    LET i == NextIn(N, from)
    IN  IF i = 0 THEN <<From(t, from)>>
        ELSE <<Mid(t, from, i - 1)>> \o SplitFrom(t, N, i + 1)

Split(t) == SplitFrom(t, AllPos(t, "\n"), 1)

\* the pieces of a code: a line break, Liquid output, text of the placeholder
\* shape, a number, an HTML tag
CodeFragments == {"\n", "{{x}}", "__HL_TAG_0__", "12", "<b>"}

Codes == Concat(CodeFragments, MaxCode)

\* the render with a code: lines.map is about to call back for the first line
InitRender == /\ code \in Codes
              /\ lines = Split(code)
              /\ rows = <<>>
              /\ raw = ""
              /\ s = ""
              /\ tags = <<>>
              /\ pc = "map"
              /\ NothingElse

\* lines.map((line, i) => ...) calls highlightLine(line) for the next line
CallStep == /\ pc = "map"
            /\ raw' = lines[Len(rows) + 1]
            /\ s' = ""
            /\ pc' = "escape"
            /\ UNCHANGED <<tags, snippet, elsewhere>>

\* the row without the fallback: __html: highlightLine(line)
RowStepNoFallback ==
    /\ pc = "done"
    /\ rows' = Append(rows, s)
    /\ pc' = IF Len(rows) + 1 = Len(lines) THEN "rendered" ELSE "map"
    /\ UNCHANGED <<raw, s, tags, code, lines, elsewhere>>

\* __html: highlightLine(line) || " " (the empty string is the one falsy string)
RowStep == /\ pc = "done"
           /\ rows' = Append(rows, IF s = "" THEN " " ELSE s)
           /\ pc' = IF Len(rows) + 1 = Len(lines) THEN "rendered" ELSE "map"
           /\ UNCHANGED <<raw, s, tags, code, lines, elsewhere>>

NextRender == \/ CallStep
              \/ EscapeStep
              \/ LiquidTagsStep
              \/ LiquidOutputStep
              \/ HtmlTagsStep
              \/ HtmlCommentsStep
              \/ MaskStep
              \/ JsonKeysStep
              \/ StringsStep
              \/ NumbersStep
              \/ BooleansStep
              \/ UnmaskStep
              \/ RowStep

SpecRender == InitRender /\ [][NextRender]_vars

\* the spellings of a non-breaking space in HTML text: the entity, its numeric
\* forms and the character U+00A0 itself
NonBreakingSpace == {"&nbsp;", "&#160;", "&#xA0;", "&#xa0;", " "}

RowOf(line) == LET h == highlightLine(line) IN IF h = "" THEN " " ELSE h

(* C16: highlighting is stateless across lines and calls: the row of a line   *)
(* is the row that line gets by itself, whatever lines were processed before  *)
(* it, so two lines with the same text get the same row; and the mask table   *)
(* a call works with holds the spans of its own line only.                    *)
C16_Stateless ==
    /\ \A i \in 1..Len(rows) : rows[i] = RowOf(lines[i])
    /\ \A i, j \in 1..Len(rows) : (lines[i] = lines[j]) => (rows[i] = rows[j])
    /\ (pc \in ContentPasses \cup {"unmask", "done"}) => (tags = Mask(Structural(raw)).tags)

\* a line of the placeholder shape that follows a line with masked spans is
\* not given the first span of that line
C16_Witness ==
    /\ Len(rows) >= 2
    /\ lines[1] = "{{x}}"
    /\ lines[2] = "__HL_TAG_0__"
    /\ rows[2] = "undefined"

(* FeaturesAccordion (src/unnamed/part_000) *)

\* the index below which a default open index is honoured, and the largest
\* value the property control gives defaultOpenIndex
OpenIndexCap == 100

DefaultOpenMax == 30

\* the white space of String.trim() and of \s
WhiteSpace == {" ", "\t", "\n", "\r", "\f"}

\* t.trim()
Trim(t) == LET K == {i \in 1..Len(t) : Ch(t, i) \notin WhiteSpace}
           IN  IF K = {} THEN "" ELSE Mid(t, Min(K), Max(K))

\* q.map((x) => x.trim())
TrimEach(q) == [k \in 1..Len(q) |-> Trim(q[k])]

\* q.filter(Boolean): the empty string is the one falsy string
Truthy(q) == LET IsTruthy(x) == x # "" IN SelectSeq(q, IsTruthy)

\* q.join(sep)
RECURSIVE Join(_, _)
Join(q, sep) == IF Len(q) = 0 THEN ""
                ELSE IF Len(q) = 1 THEN q[1]
                ELSE q[1] \o sep \o Join(Tail(q), sep)

\* /\n\s*\n/ at the line break i: the last index of the match, 0 when there is
\* none.  \s* is greedy, so the match ends with the last line break of the
\* white space that follows i; N is AllPos(t, "\n")
BlankEnd(t, N, i) == LET e == RunEnd(t, i + 1, WhiteSpace)
                         J == {j \in N : j > i /\ j <= e}
                     IN  IF J = {} THEN 0 ELSE Max(J)

\* t.split(/\n\s*\n/)
RECURSIVE SplitBlankFrom(_, _, _)
SplitBlankFrom(t, N, from) ==
    LET M == {i \in N : i >= from /\ BlankEnd(t, N, i) # 0}
    IN  IF M = {} THEN <<From(t, from)>>
        ELSE LET i == Min(M)
             IN  <<Mid(t, from, i - 1)>> \o SplitBlankFrom(t, N, BlankEnd(t, N, i) + 1)

\* t.split("\n\n"): a blank line is two line breaks with nothing between them
RECURSIVE SplitLiteralFrom(_, _, _)
SplitLiteralFrom(t, P, from) ==
    LET i == NextIn(P, from)
    IN  IF i = 0 THEN <<From(t, from)>>
        ELSE <<Mid(t, from, i - 1)>> \o SplitLiteralFrom(t, P, i + 2)

SplitBlankLiteral(t) == SplitLiteralFrom(t, AllPos(t, "\n\n"), 1)

SplitBlank(t) == SplitBlankFrom(t, AllPos(t, "\n"), 1)

\* one block of the text as a feature
Feature(block) ==
    LET ls == TrimEach(Split(block))
    IN  [title |-> IF ls[1] = "" THEN "Untitled" ELSE ls[1],
         description |-> Trim(Join(Tail(ls), "\n"))]

parseFeatures(text) ==
    IF Trim(text) = "" THEN <<>>
    ELSE LET blocks == Truthy(TrimEach(SplitBlank(ReplaceAll(text, "\r\n", "\n"))))
         IN  [k \in 1..Len(blocks) |-> Feature(blocks[k])]

\* everything but the accordion
notAccordion == <<call, snippet, navigation, gallery, capture, copying>>

\* no CodeSnippet is on the page
NoCodeSnippet == /\ raw = ""
                 /\ s = ""
                 /\ tags = <<>>
                 /\ pc = "none"
                 /\ code = ""
                 /\ lines = <<>>
                 /\ rows = <<>>

\* the first render with the first item open whatever the default open index
MountStepFirstOpen ==
    /\ ~mounted
    /\ features' = parseFeatures(featuresText)
    /\ openIndices' = {0}
    /\ mounted' = TRUE
    /\ UNCHANGED <<featuresText, allowMultiple, defaultOpenIndex, notAccordion>>

\* the first render: useMemo parses the text, useState builds the initial set
MountStep ==
    /\ ~mounted
    /\ features' = parseFeatures(featuresText)
    /\ openIndices' = IF defaultOpenIndex >= 0 /\ defaultOpenIndex < OpenIndexCap
                      THEN {defaultOpenIndex}
                      ELSE {}
    /\ mounted' = TRUE
    /\ UNCHANGED <<featuresText, allowMultiple, defaultOpenIndex, notAccordion>>

\* a mutant: the other items are never closed
HandleToggleKeepOthers(index) ==
    /\ mounted
    /\ index \in 0..(Len(features) - 1)
    /\ openIndices' = IF index \in openIndices
                      THEN openIndices \ {index}
                      ELSE openIndices \cup {index}
    /\ UNCHANGED <<featuresText, allowMultiple, defaultOpenIndex, features, mounted,
                   notAccordion>>

\* handleToggle(index), called by the button of the item rendered for index
HandleToggle(index) ==
    /\ mounted
    /\ index \in 0..(Len(features) - 1)
    /\ openIndices' = IF index \in openIndices
                      THEN openIndices \ {index}
                      ELSE (IF allowMultiple THEN openIndices ELSE {}) \cup {index}
    /\ UNCHANGED <<featuresText, allowMultiple, defaultOpenIndex, features, mounted,
                   notAccordion>>

(* parseFeatures on the texts of a features field *)

MaxText == 6

\* the pieces of a features text: words, a line break, a space, a CR LF
TextFragments == {"A", "b", "\n", " ", "\r\n"}

FeatureTexts == Concat(TextFragments, MaxText)

\* a component with the default props but for the text
InitFeatures == /\ featuresText \in FeatureTexts
                /\ allowMultiple = FALSE
                /\ defaultOpenIndex = 0
                /\ features = <<>>
                /\ openIndices = {}
                /\ mounted = FALSE
                /\ NoCodeSnippet
                /\ NoNavigation
                /\ NoGallery
                /\ NoCapture
                /\ NoCopying

NextFeatures == MountStep

SpecFeatures == InitFeatures /\ [][NextFeatures]_vars

\* the lines of a text, each without the white space around it
TrimmedLines(text) == TrimEach(Split(ReplaceAll(text, "\r\n", "\n")))

\* the blocks of a sequence of lines: the maximal runs of non-empty lines;
\* cur is the run being read
RECURSIVE BlocksOf(_, _)
BlocksOf(ls, cur) ==
    LET done == IF cur = <<>> THEN <<>> ELSE <<cur>>
    IN  IF ls = <<>> THEN done
        ELSE IF Head(ls) = "" THEN done \o BlocksOf(Tail(ls), <<>>)
        ELSE BlocksOf(Tail(ls), Append(cur, Head(ls)))

\* one item per block: the first line, and the other lines one per line
ItemsOf(text) ==
    LET B == BlocksOf(TrimmedLines(text), <<>>)
    IN  [k \in 1..Len(B) |-> [title |-> Head(B[k]), description |-> Join(Tail(B[k]), "\n")]]

(* C17: parseFeatures turns the features text into one item per block of      *)
(* non-empty lines separated by blank lines, in order: the title is the first *)
(* line of the block and the description the remaining lines (each line       *)
(* without the white space around it); an empty or white-space-only text      *)
(* yields no items; and every item has a non-empty title.                     *)
C17_OneItemPerBlock ==
    mounted =>
        /\ features = ItemsOf(featuresText)
        /\ (Trim(featuresText) = "") => (features = <<>>)
        /\ \A k \in 1..Len(features) : features[k].title # ""

\* two blocks, the first with a description
C17_Witness ==
    /\ mounted
    /\ Len(features) = 2
    /\ features[1].description # ""
    /\ features[2].title = "b"

(* NavigationMenu (src/unnamed/part_001): parseLinks *)

\* line.indexOf("|"), from 1; 0 when there is none
IndexOfPipe(line) == NextIn(AllPos(line, "|"), 1)

\* the link of a line cut at its last "|" instead of its first
LinkAtLastPipe(line) ==
    LET P == AllPos(line, "|")
    IN  IF P = {} THEN [label |-> line, url |-> "#"]
        ELSE [label |-> Trim(Mid(line, 1, Max(P) - 1)),
              url |-> IF Trim(From(line, Max(P) + 1)) = "" THEN "#"
                      ELSE Trim(From(line, Max(P) + 1))]

\* one trimmed, non-empty line as a link
Link(line) ==
    LET pipeIdx == IndexOfPipe(line)
    IN  IF pipeIdx = 0 THEN [label |-> line, url |-> "#"]
        ELSE [label |-> Trim(Mid(line, 1, pipeIdx - 1)),
              url |-> IF Trim(From(line, pipeIdx + 1)) = "" THEN "#"
                      ELSE Trim(From(line, pipeIdx + 1))]

parseLinks(text) ==
    IF Trim(text) = "" THEN <<>>
    ELSE LET ls == Truthy(TrimEach(Split(ReplaceAll(text, "\r\n", "\n"))))
         IN  [k \in 1..Len(ls) |-> Link(ls[k])]

MaxLinkText == 5

\* the pieces of a links text: a label, a url, the separator, a line break, a
\* space, a CR LF
LinkFragments == {"A", "/b", "|", "\n", " ", "\r\n"}

LinkTexts == Concat(LinkFragments, MaxLinkText)

InitLinks == /\ linksText \in LinkTexts
             /\ links = <<>>
             /\ rendered = FALSE
             /\ NoCodeSnippet
             /\ NoAccordion
             /\ NoGallery
             /\ NoCapture
             /\ NoCopying

\* const links = parseLinks(linksText)
RenderLinksStep == /\ ~rendered
                   /\ links' = parseLinks(linksText)
                   /\ rendered' = TRUE
                   /\ UNCHANGED <<linksText, call, snippet, accordion, gallery, capture, copying>>

NextLinks == RenderLinksStep

SpecLinks == InitLinks /\ [][NextLinks]_vars

\* the lines of a text that are not blank, trimmed, in order
NonBlankLines(text) == Truthy(TrimmedLines(text))

(* C18: parseLinks reads one link per non-blank line, in the order of the     *)
(* lines: the label is the trimmed text before the first "|" of the line and  *)
(* the url the trimmed text after it; a line with no "|" is the label and     *)
(* gets the url "#", and so does a line with nothing after the "|"; every     *)
(* link has a non-empty url.                                                  *)
C18_OneLinkPerLine ==
    rendered =>
        LET L == NonBlankLines(linksText)
        IN  /\ Len(links) = Len(L)
            /\ \A k \in 1..Len(L) :
                   LET P == AllPos(L[k], "|")
                       after == IF P = {} THEN "" ELSE Trim(From(L[k], Min(P) + 1))
                   IN  /\ links[k].label = IF P = {} THEN L[k]
                                           ELSE Trim(Mid(L[k], 1, Min(P) - 1))
                       /\ links[k].url = IF after = "" THEN "#" ELSE after
                       /\ links[k].url # ""

\* a link with a label and a url, then a line without a separator
C18_Witness ==
    /\ rendered
    /\ Len(links) = 2
    /\ links[1] = [label |-> "A", url |-> "/b"]
    /\ links[2] = [label |-> "A", url |-> "#"]

(* FeaturesAccordion: mounting and toggling *)

MaxItems == 3

\* a features text of n blocks, each a title and a line of description
RECURSIVE BlocksText(_)
BlocksText(n) == IF n = 0 THEN ""
                 ELSE IF n = 1 THEN "A\nb"
                 ELSE BlocksText(n - 1) \o "\n\nA\nb"

\* the props as the property controls give them
InitAccordion == /\ featuresText \in {BlocksText(n) : n \in 0..MaxItems}
                 /\ allowMultiple \in BOOLEAN
                 /\ defaultOpenIndex \in -1..DefaultOpenMax
                 /\ features = <<>>
                 /\ openIndices = {}
                 /\ mounted = FALSE
                 /\ NoCodeSnippet
                 /\ NoNavigation
                 /\ NoGallery
                 /\ NoCapture
                 /\ NoCopying

NextAccordion == \/ MountStep
                 \/ \E index \in 0..(MaxItems - 1) : HandleToggle(index)

SpecAccordion == InitAccordion /\ [][NextAccordion]_vars

\* the items that are rendered open: isOpen={openIndices.has(i)}
OpenItems == {i \in 0..(Len(features) - 1) : i \in openIndices}

(* C19: the initial open state follows defaultOpenIndex: when it is the index *)
(* of an existing item, that item and only that item is open once the         *)
(* component is mounted, before any toggle; when it is -1, no item is open.   *)
(* (Every value the property control gives is below the cap of the code.)     *)
C19_InitialOpenFollowsDefault ==
    /\ DefaultOpenMax < OpenIndexCap
    /\ [][MountStep =>
             /\ (defaultOpenIndex \in 0..(Len(features') - 1))
                    => (OpenItems' = {defaultOpenIndex} /\ openIndices' = {defaultOpenIndex})
             /\ (defaultOpenIndex = -1) => (OpenItems' = {})]_vars

\* the last of three items is the default and is the one open
C19_Witness ==
    /\ mounted
    /\ Len(features) = 3
    /\ defaultOpenIndex = 2
    /\ OpenItems = {2}

(* MediaGallery *)

\* .slice(0, 5)
MediaLimit == 5

MaxUrls == 6

VideoExtensions == {".mp4", ".webm", ".ogg", ".mov", ".m4v", ".avi", ".mkv"}

UpperCase == "ABCDEFGHIJKLMNOPQRSTUVWXYZ"

LowerCase == "abcdefghijklmnopqrstuvwxyz"

\* c.toLowerCase() of one character
LowerChar(c) == LET k == {i \in 1..Len(UpperCase) : Ch(UpperCase, i) = c}
                IN  IF k = {} THEN c ELSE Ch(LowerCase, Min(k))

RECURSIVE toLowerCase(_)
toLowerCase(t) == IF t = "" THEN ""
                  ELSE LowerChar(Ch(t, 1)) \o toLowerCase(From(t, 2))

\* detectMediaType of a url without a scheme: new URL(url) throws, and the
\* catch branch looks for an extension anywhere in the lowered url
detectMediaType(url) ==
    IF \E ext \in VideoExtensions : Contains(toLowerCase(url), ext)
    THEN "video" ELSE "image"

parseMediaUrls(text) ==
    IF Trim(text) = "" THEN <<>>
    ELSE LET all  == Truthy(TrimEach(Split(ReplaceAll(text, "\r\n", "\n"))))
             kept == SubSeq(all, 1, Min({MediaLimit, Len(all)}))
         IN  [k \in 1..Len(kept) |-> [url |-> kept[k], type |-> detectMediaType(kept[k])]]

notGallery == <<call, snippet, accordion, navigation, capture, copying>>

\* the k-th url of a list: an image at odd k, a video at even k
UrlName(k) == Decimal(k) \o (IF k % 2 = 0 THEN ".mp4" ELSE ".jpg")

\* n urls, one per line
RECURSIVE UrlsText(_)
UrlsText(n) == IF n = 0 THEN ""
               ELSE IF n = 1 THEN UrlName(1)
               ELSE UrlsText(n - 1) \o "\n" \o UrlName(n)

\* the values of the mediaUrls prop: lists of 0..MaxUrls urls, a text of
\* white space only, and a list with CRLF, a blank line and padding
MediaTexts == {UrlsText(n) : n \in 0..MaxUrls}
                  \cup {" \n ", "1.jpg\r\n\r\n 2.MP4 "}

\* const [activeIndex, setActiveIndex] = useState(0), before the first render
InitGallery == /\ mediaUrls \in MediaTexts
               /\ activeIndex = 0
               /\ items = <<>>
               /\ view = "none"
               /\ step = "render"
               /\ NoCodeSnippet
               /\ NoAccordion
               /\ NoNavigation
               /\ NoCapture
               /\ NoCopying

\* one run of the component function with the current prop and state: the
\* empty state when there are no items; otherwise the main display, whose key
\* reads activeItem.url and throws a TypeError when items[activeIndex] is
\* undefined, so that nothing is committed and no effect runs
RenderGalleryStep ==
    /\ step = "render"
    /\ items' = parseMediaUrls(mediaUrls)
    /\ IF Len(items') = 0
          THEN view' = "empty" /\ step' = "effect"
          ELSE IF activeIndex \in 0..(Len(items') - 1)
                 THEN view' = "main" /\ step' = "effect"
                 ELSE view' = "none" /\ step' = "threw"
    /\ UNCHANGED <<mediaUrls, activeIndex, notGallery>>

\* the clamp effect, run after the render has been committed
ClampEffectStep ==
    /\ step = "effect"
    /\ IF activeIndex >= Len(items) /\ Len(items) > 0
          THEN activeIndex' = 0 /\ step' = "render"
          ELSE activeIndex' = activeIndex /\ step' = "idle"
    /\ UNCHANGED <<mediaUrls, items, view, notGallery>>

\* onClick={() => setActiveIndex(i)} of the i-th thumbnail
ThumbClick(i) ==
    /\ step = "idle"
    /\ view = "main"
    /\ i \in 0..(Len(items) - 1)
    /\ activeIndex' = i
    /\ step' = "render"
    /\ UNCHANGED <<mediaUrls, items, view, notGallery>>

\* handleKeyDown with ArrowRight or ArrowDown
ArrowNext ==
    /\ step = "idle"
    /\ view = "main"
    /\ IF Len(items) = 0
          THEN UNCHANGED <<activeIndex, step>>
          ELSE activeIndex' = (activeIndex + 1) % Len(items) /\ step' = "render"
    /\ UNCHANGED <<mediaUrls, items, view, notGallery>>

\* handleKeyDown with ArrowLeft or ArrowUp
ArrowPrevious ==
    /\ step = "idle"
    /\ view = "main"
    /\ IF Len(items) = 0
          THEN UNCHANGED <<activeIndex, step>>
          ELSE /\ activeIndex' = IF activeIndex = 0 THEN Len(items) - 1
                                  ELSE activeIndex - 1
               /\ step' = "render"
    /\ UNCHANGED <<mediaUrls, items, view, notGallery>>

\* the page gives the component another mediaUrls
SetMediaUrls(text) ==
    /\ step = "idle"
    /\ text # mediaUrls
    /\ mediaUrls' = text
    /\ step' = "render"
    /\ UNCHANGED <<activeIndex, items, view, notGallery>>

NextGallery == \/ RenderGalleryStep
               \/ ClampEffectStep
               \/ \E i \in 0..(MediaLimit - 1) : ThumbClick(i)
               \/ ArrowNext
               \/ ArrowPrevious
               \/ \E text \in MediaTexts : SetMediaUrls(text)

SpecGallery == InitGallery /\ [][NextGallery]_vars

(* C20: whenever a render has found a non-empty item list, and so has built *)
(* the main display from items[activeIndex], activeIndex is an index of the  *)
(* list (0 <= activeIndex < items.length) and the active item is defined,    *)
(* after any thumbnail clicks, arrow keys and changes of the url list.       *)
C20_ActiveItemDefined ==
    (step \in {"effect", "idle", "threw"} /\ Len(items) > 0)
        => (activeIndex \in 0..(Len(items) - 1))

(* EmailCapture *)

MaxSubmits == 2

MaxPending == 2

AccessKeys == {"", "key"}

Emails == {"", "a@b.c"}

\* what the request can come to: fetch rejects, or it resolves with a body
Bodies == {"{\"success\":true}", "{\"success\":false}", "{}", "null", "<html>"}

Responses == {[fetch |-> "rejects", body |-> ""]}
                 \cup {[fetch |-> "resolves", body |-> b] : b \in Bodies}

\* (await res.json()).success for these bodies: the value, or the error thrown
JsonSuccess(body) ==
    CASE body = "{\"success\":true}"  -> "true"
      [] body = "{\"success\":false}" -> "false"
      [] body = "{}"                   -> "undefined"
      [] body = "null"                 -> "TypeError"
      [] OTHER                         -> "SyntaxError"

StatusUpdate(value) == [field |-> "status", value |-> value]

EmailUpdate(value) == [field |-> "email", value |-> value]

\* a mutant: the status is success whenever the request resolves
OutcomeByFetchOnly(r) ==
    IF r.fetch = "rejects" THEN <<StatusUpdate("error")>>
    ELSE <<StatusUpdate("success"), EmailUpdate("")>>

\* the state updates handleSubmit queues once the request has come to r
Outcome(r) ==
    IF r.fetch = "rejects" THEN <<StatusUpdate("error")>>
    ELSE IF JsonSuccess(r.body) \in {"SyntaxError", "TypeError"}
           THEN <<StatusUpdate("error")>>
    ELSE IF JsonSuccess(r.body) = "true"
           THEN <<StatusUpdate("success"), EmailUpdate("")>>
    ELSE <<StatusUpdate("error")>>

\* the value of a state once the queued updates q have been applied in order
RECURSIVE After(_, _, _)
After(field, value, q) ==
    IF q = <<>> THEN value
    ELSE After(field, IF q[1].field = field THEN q[1].value ELSE value, Tail(q))

notCapture == <<call, snippet, accordion, navigation, gallery, copying>>

\* useState(""), useState("idle")
InitCapture == /\ accessKey \in AccessKeys
               /\ email = ""
               /\ status = "idle"
               /\ updates = <<>>
               /\ flying = {}
               /\ arrived = {}
               /\ sent = 0
               /\ NoCodeSnippet
               /\ NoAccordion
               /\ NoNavigation
               /\ NoGallery
               /\ NoCopying

\* onChange of the input, which the latest render has left enabled
ChangeEmail(text) ==
    /\ status # "loading"
    /\ Len(updates) < MaxPending
    /\ updates' = Append(updates, EmailUpdate(text))
    /\ UNCHANGED <<accessKey, email, status, flying, arrived, sent, notCapture>>

\* handleSubmit up to its first await, on a submit of the form, whose input
\* and button the latest render has left enabled
SubmitStep ==
    /\ status # "loading"
    /\ sent < MaxSubmits
    /\ IF email = "" \/ accessKey = ""
          THEN UNCHANGED <<updates, flying, sent>>
          ELSE /\ updates' = Append(updates, StatusUpdate("loading"))
               /\ flying' = flying \cup {sent + 1}
               /\ sent' = sent + 1
    /\ UNCHANGED <<accessKey, email, status, arrived, notCapture>>

\* the request n resolves or rejects
RespondStep(n, r) ==
    /\ n \in flying
    /\ flying' = flying \ {n}
    /\ arrived' = arrived \cup {[id |-> n, response |-> r]}
    /\ UNCHANGED <<accessKey, email, status, updates, sent, notCapture>>

\* handleSubmit after its awaits, for the request n
SettleStep(n) ==
    /\ \E a \in arrived :
          /\ a.id = n
          /\ arrived' = arrived \ {a}
          /\ updates' = updates \o Outcome(a.response)
    /\ UNCHANGED <<accessKey, email, status, flying, sent, notCapture>>

\* React renders the queued transition updates and commits the result
CommitStep ==
    /\ updates # <<>>
    /\ status' = After("status", status, updates)
    /\ email' = After("email", email, updates)
    /\ updates' = <<>>
    /\ UNCHANGED <<accessKey, flying, arrived, sent, notCapture>>

NextCapture == \/ \E text \in Emails : ChangeEmail(text)
               \/ SubmitStep
               \/ \E n \in 1..MaxSubmits : \E r \in Responses : RespondStep(n, r)
               \/ \E n \in 1..MaxSubmits : SettleStep(n)
               \/ CommitStep

SpecCapture == InitCapture /\ [][NextCapture]_vars

(* C21: the status only moves idle -> loading, success -> loading,         *)
(* error -> loading, loading -> success and loading -> error; it never      *)
(* returns to idle and never moves from idle, success or error directly to *)
(* success or error.                                                        *)
C21_StatusTransitions ==
    [][(status' # status) =>
           (<<status, status'>> \in {<<"idle", "loading">>, <<"success", "loading">>,
                                     <<"error", "loading">>, <<"loading", "success">>,
                                     <<"loading", "error">>})]_vars

(* C23: at most one submission request is in flight at any time: no second *)
(* request is sent before the first one has completed.                      *)
C23_OneRequestInFlight == Cardinality(flying) <= 1

\* every request resolves or rejects in the end, handleSubmit resumes on what
\* has arrived, and React renders the transitions it has queued
SpecCaptureLive ==
    /\ SpecCapture
    /\ WF_vars(CommitStep)
    /\ \A n \in 1..MaxSubmits :
           /\ WF_vars(\E r \in Responses : RespondStep(n, r))
           /\ WF_vars(SettleStep(n))

\* the requests that handleSubmit is still waiting on or has yet to resume on
Unsettled == flying \cup {a.id : a \in arrived}

(* C22: given that every request resolves or rejects, every submission that *)
(* has sent a request is settled in the end, and a status of loading is      *)
(* followed by success or error; the status handleSubmit sets for a request  *)
(* is success when the response body has success true, and error when the    *)
(* request was rejected, the body cannot be parsed or success is not true.   *)
C22_SubmissionEndsInSuccessOrError ==
    /\ [][\A a \in arrived \ arrived' :
             After("status", "unset", SubSeq(updates', Len(updates) + 1, Len(updates')))
                 = IF a.response = [fetch |-> "resolves", body |-> "{\"success\":true}"]
                     THEN "success" ELSE "error"]_vars
    /\ \A n \in 1..MaxSubmits : (n \in Unsettled) ~> (n \notin Unsettled)
    /\ (status = "loading") ~> (status \in {"success", "error"})

\* a submission has ended in success and nothing is pending
C22_Witness ==
    /\ status = "success"
    /\ sent > 0
    /\ Unsettled = {}
    /\ updates = <<>>

(* CodeSnippet: the copy button *)

MaxClicks == 3

\* setTimeout(..., 2200): every reset timer has the same delay, so the timers
\* fire in the order in which they were started
ResetDelay == 2200

CopyCodes == {"", "a", "{{x}}\n12"}

notCopying == <<call, snippet, accordion, navigation, gallery, capture>>

\* useState(false); the code prop is what the button copies
InitCopying == /\ raw = ""
               /\ s = ""
               /\ tags = <<>>
               /\ pc = "none"
               /\ code \in CopyCodes
               /\ lines = <<>>
               /\ rows = <<>>
               /\ copied = FALSE
               /\ clipboard = "none"
               /\ writing = {}
               /\ timers = <<>>
               /\ clicks = 0
               /\ NoAccordion
               /\ NoNavigation
               /\ NoGallery
               /\ NoCapture

\* handleCopy up to its await, on a click on the copy button
ClickCopyStep ==
    /\ clicks < MaxClicks
    /\ clicks' = clicks + 1
    /\ writing' = writing \cup {clicks + 1}
    /\ UNCHANGED <<copied, clipboard, timers, notCopying>>

\* handleCopy after its await, for the click n: the text is on the clipboard,
\* through writeText or through the textarea of the catch branch; copied is
\* set and a reset timer is started
CopiedStep(n) ==
    /\ n \in writing
    /\ writing' = writing \ {n}
    /\ clipboard' = code
    /\ copied' = TRUE
    /\ timers' = Append(timers, n)
    /\ UNCHANGED <<clicks, notCopying>>

\* the oldest pending reset timer fires: () => setCopied(false)
ResetStep ==
    /\ timers # <<>>
    /\ copied' = FALSE
    /\ timers' = Tail(timers)
    /\ UNCHANGED <<clipboard, writing, clicks, notCopying>>

NextCopying == \/ ClickCopyStep
               \/ \E n \in 1..MaxClicks : CopiedStep(n)
               \/ ResetStep

SpecCopying == InitCopying /\ [][NextCopying]_vars

(* C24: once a click on the copy button has set copied to true, copied stays *)
(* true until the reset timer started by that same click fires, also when an *)
(* earlier click's reset timer is still pending: as long as the timer of     *)
(* some click is pending, copied is true.                                    *)
C24_CopiedUntilOwnTimer == (timers # <<>>) => copied

(* C25: in FeaturesAccordion with allowMultiple false, at most one item is  *)
(* open after any sequence of toggles: toggling a closed item opens it and   *)
(* closes every other item, and toggling the open item leaves no item open.  *)
C25_AtMostOneOpen ==
    /\ []((mounted /\ ~allowMultiple) => (Cardinality(OpenItems) <= 1))
    /\ [][\A index \in 0..(MaxItems - 1) :
             (HandleToggle(index) /\ ~allowMultiple)
                 => (OpenItems' = IF index \in OpenItems THEN {} ELSE {index})]_vars

\* the second item has been opened, which has closed the first, the default
C25_Witness ==
    /\ mounted
    /\ ~allowMultiple
    /\ defaultOpenIndex = 0
    /\ Len(features) = 3
    /\ OpenItems = {1}

====
